---- MODULE Spec2Model ----
(***************************************************************************)
(* Model of the MCP tester: the session manager MCPTesterClient            *)
(* (src/generic_client.py), the leak probe timeout_tester with its helpers *)
(* snapshot and find_stdio_child (src/advanced.py), and the command line   *)
(* (src/run.py).                                                           *)
(*                                                                         *)
(* Spec drives the client and the probe directly; RegistrySpec is          *)
(* add_server alone, HelperSpec the two helpers alone, CliSpec the client  *)
(* as main() drives it.                                                    *)
(*                                                                         *)
(* Coroutines are cut at their await points: one action runs the code      *)
(* between two awaits, as the asyncio event loop does.                     *)
(*                                                                         *)
(* Time is counted in ticks of 100 ms.                                     *)
(***************************************************************************)
EXTENDS Integers, Sequences, FiniteSets, TLC

(***************************************************************************)
(* Bounds of the model.                                                    *)
(***************************************************************************)
\* AsyncExitStack objects created over a run (one per connect call)
MaxStacks == 2
\* connect calls in flight at the same time
MaxCalls == 2
\* largest grace period passed to the probe, in ticks
MaxGrace == 4
\* how much longer than its nominal time a blocking call or a sleep may take
MaxJitter == 1

\* What a configuration points at: the StdioServerParameters under the key
\* "server_params" or the address under the key "server_url".
Targets == {"server_a", "server_b", "server_c"}

\* configurations handed to add_server
Configs == [transport : {"stdio", "streamable_https"}, target : Targets]

\* The configurations of the one server that the runs of the manager and of
\* the probe are about; no step of connect, cleanup or the probe depends on
\* what a configuration points at.
RunConfigs == {cfg \in Configs : cfg.target = "server_a"}

\* server ids; "1" is the default of run.py and timeout_tester
ServerIds == {"1", "2"}
\* transports of the CLI (run.py --transport)
Transports == {"stdio", "https"}

(***************************************************************************)
(* Python dictionaries keep insertion order: a dict is a sequence of       *)
(* <<key, value>> pairs with distinct keys.                                *)
(***************************************************************************)
Keys(d) == {d[i][1] : i \in 1..Len(d)}

Has(d, k) == k \in Keys(d)

IndexOf(d, k) == CHOOSE i \in 1..Len(d) : d[i][1] = k

\* d[k]
Lookup(d, k) == d[IndexOf(d, k)][2]

\* d[k] = v : an existing key keeps its place, a new key goes last
Store(d, k, v) ==
    IF Has(d, k) THEN [d EXCEPT ![IndexOf(d, k)] = <<k, v>>]
    ELSE Append(d, <<k, v>>)

\* d.clear()
Clear(d) == << >>

(***************************************************************************)
(* A dict that the code never iterates is a function on its keys; the      *)
(* empty dict is << >>.                                                    *)
(***************************************************************************)
MapHas(m, k) == k \in DOMAIN m

MapStore(m, k, v) == [x \in DOMAIN m \cup {k} |-> IF x = k THEN v ELSE m[x]]

\* m.pop(k, None)
MapPop(m, k) == [x \in DOMAIN m \ {k} |-> m[x]]

VARIABLES
    transport,      \* client.transport, set by MCPTesterClient.__init__
    server_params,  \* client.server_params : id -> configuration
    sessions,       \* client.sessions      : id -> session
    exit_stacks,    \* client.exit_stacks   : id -> AsyncExitStack
    stacks,         \* the AsyncExitStack objects: stacks[k] is the contexts
                    \* entered in stack k and not yet exited, oldest first
    calls,          \* the frames of the connect calls in flight
    cleanup,        \* the frame of the cleanup() call in flight
    probe,          \* the frame of the timeout_tester() call in flight (in
                    \* HelperSpec: of the snapshot or find_stdio_child call)
    forceClosed,    \* the stacks that line 34 of timeout_tester has closed
    main,           \* the frame of run.py's main(), when the client is driven by
                    \* the command line
    ret             \* what the step just taken handed to the caller of its
                    \* coroutine (a return value or an exception); NoRet after
                    \* a step that ends no call

\* Stacks are numbered from 1 in the order of their creation.  A session
\* object is named by the stack that owns it: connect enters exactly one
\* ClientSession in each stack it creates.

NoRet == [op |-> "none"]

\* ---------------------------------------------------------------------
\* AsyncExitStack
\* ---------------------------------------------------------------------

\* enter_async_context(cm) having succeeded: cm is exited when the stack closes
Entered(stk, k, ctx) == [stk EXCEPT ![k] = Append(@, ctx)]

\* aclose(): every entered context is exited, newest first, whether or not one
\* of the exits raises; a stack that holds nothing does nothing.
Closed(stk, k) == [stk EXCEPT ![k] = << >>]

\* aclose() can raise only out of the exit of a context it holds
CloseOutcomes(stk, k) == IF stk[k] = << >> THEN {"ok"} ELSE {"ok", "raised"}

\* ---------------------------------------------------------------------
\* MCPTesterClient
\* ---------------------------------------------------------------------

\* The frame of cleanup(): the position and the size the dict iterator keeps
\* (it, size), the stack being closed (cur) and, for the record, the dicts as
\* they were at the call, the stacks closed so far with the outcome of each
\* close, and whether a connect call has written exit_stacks since the call.
IdleCleanup == [pc |-> "idle", it |-> 0, size |-> 0, cur |-> 0,
                atStart |-> << >>, sessionsAtStart |-> << >>,
                attempted |-> << >>, outcomes |-> << >>, registered |-> FALSE]

\* No timeout_tester call is in flight.
IdleProbe == [pc |-> "idle"]

\* run.py is not running: the client is driven directly.
IdleMain == [pc |-> "idle"]

\* __init__: the transport is the constructor's argument, the dicts are empty
ClientInit ==
    /\ transport \in Transports
    /\ server_params = << >>
    /\ sessions = << >>
    /\ exit_stacks = << >>
    /\ stacks = << >>
    /\ calls = {}
    /\ cleanup = IdleCleanup
    /\ probe = IdleProbe
    /\ forceClosed = {}
    /\ ret = NoRet

\* The "transport" entry of the configuration that run.py registers on a
\* client of the given transport.
ConfigTransport(t) == IF t = "stdio" THEN "stdio" ELSE "streamable_https"

\* add_server: self.server_params[server_id] = server_params.  As in run.py,
\* the configuration names the transport the client was built with.  The call
\* is synchronous and writes a dict that no step of connect or cleanup reads:
\* it is taken between the calls of the coroutines, not between their steps.
add_server(id, cfg) ==
    /\ probe.pc = "idle"
    /\ calls = {}
    /\ cleanup.pc = "idle"
    /\ cfg.transport = ConfigTransport(transport)
    /\ server_params' = MapStore(server_params, id, cfg)
    /\ ret' = [op |-> "add_server", sid |-> id, outcome |-> "returned",
               before |-> server_params]
    /\ UNCHANGED <<transport, sessions, exit_stacks, stacks, calls, cleanup, probe, forceClosed, main>>

\* The transport context a connect function enters first: the child process and
\* its pipes (stdio_client) or the network stream (streamablehttp_client).
TransportCtx(kind) == IF kind = "stdio" THEN "stdio_client" ELSE "streamablehttp_client"

\* connect_server_stdio / connect_server_streamable_https up to the first
\* await: a new exit stack is created and registered under the id.  As in
\* run.py, the function called is the one of the client's transport and its
\* second argument is taken from the configuration registered under the id.
ConnectCall(id, kind) ==
    /\ probe.pc = "idle"
    /\ kind = transport
    /\ MapHas(server_params, id)
    /\ Len(stacks) < MaxStacks
    /\ Cardinality(calls) < MaxCalls
    /\ LET k == Len(stacks) + 1
       IN  /\ stacks' = Append(stacks, << >>)
           /\ exit_stacks' = Store(exit_stacks, id, k)
           /\ calls' = calls \cup {[sid |-> id, kind |-> kind, stk |-> k, pc |-> "transport"]}
           /\ cleanup' = IF cleanup.pc = "idle" THEN cleanup
                         ELSE [cleanup EXCEPT !.registered = TRUE]
    /\ ret' = NoRet
    /\ UNCHANGED <<transport, server_params, sessions, probe, forceClosed, main>>

\* What a finishing connect call hands to its caller: the session, None or an
\* exception, and why.
Returned(c, outcome, cause) ==
    [op |-> "connect", sid |-> c.sid, stk |-> c.stk, outcome |-> outcome, cause |-> cause]

\* The await on enter_async_context(stdio_client(..)) or on
\* enter_async_context(streamablehttp_client(..)) resolves: the transport is
\* open and the ClientSession is being entered, or the spawn/open failed and
\* the exception leaves the connect function.
ConnectTransport(c) ==
    /\ c \in calls
    /\ c.pc = "transport"
    /\ \E ok \in BOOLEAN :
         IF ok
         THEN /\ stacks' = Entered(stacks, c.stk, TransportCtx(c.kind))
              /\ calls' = (calls \ {c}) \cup {[c EXCEPT !.pc = "session"]}
              /\ ret' = NoRet
         ELSE /\ calls' = calls \ {c}
              /\ ret' = Returned(c, "raised", "spawn")
              /\ UNCHANGED stacks
    /\ UNCHANGED <<transport, server_params, sessions, exit_stacks, cleanup, probe, forceClosed, main>>

\* The await on enter_async_context(ClientSession(..)) resolves: the session
\* is stored under the id and the handshake starts.
ConnectSession(c) ==
    /\ c \in calls
    /\ c.pc = "session"
    /\ stacks' = Entered(stacks, c.stk, "ClientSession")
    /\ sessions' = MapStore(sessions, c.sid, c.stk)
    /\ calls' = (calls \ {c}) \cup {[c EXCEPT !.pc = "initialize"]}
    /\ ret' = NoRet
    /\ UNCHANGED <<transport, server_params, exit_stacks, cleanup, probe, forceClosed, main>>

\* What `await asyncio.wait_for(session.initialize(), timeout=5.0)` resolves to.
\* wait_for raises asyncio.TimeoutError, which is the builtin TimeoutError that
\* the except clause names from Python 3.11 on and a different class before:
\* the clause catches the timeout ("timeout_caught") or does not
\* ("timeout_uncaught").
HandshakeOutcomes == {"ok", "timeout_caught", "timeout_uncaught", "error"}

\* The except TimeoutError branch, first statement: exit_stack.aclose() is
\* called without await, which makes a coroutine object that never runs:
\* nothing is exited.
TimeoutHandlerClose(stk, k) == stk

ConnectInitialize(c) ==
    /\ c \in calls
    /\ c.pc = "initialize"
    /\ calls' = calls \ {c}
    /\ \E out \in HandshakeOutcomes :
         CASE out = "ok" ->
                /\ ret' = Returned(c, "session", "ok")
                /\ UNCHANGED <<sessions, stacks>>
           [] out = "timeout_caught" ->
                /\ stacks' = TimeoutHandlerClose(stacks, c.stk)
                /\ sessions' = MapPop(sessions, c.sid)
                /\ ret' = Returned(c, "None", "timeout")
           [] out = "timeout_uncaught" ->
                /\ ret' = Returned(c, "raised", "timeout")
                /\ UNCHANGED <<sessions, stacks>>
           [] out = "error" ->
                /\ ret' = Returned(c, "raised", "handshake")
                /\ UNCHANGED <<sessions, stacks>>
    /\ UNCHANGED <<transport, server_params, exit_stacks, cleanup, probe, forceClosed, main>>

connect_server_stdio(id) == ConnectCall(id, "stdio")

connect_server_streamable_https(id) == ConnectCall(id, "https")

\* ---------------------------------------------------------------------
\* cleanup()
\* ---------------------------------------------------------------------

\* The for loop asks the dict iterator for the next item.  The iterator raises
\* RuntimeError when the dict's size is no longer the size it had when the loop
\* started; otherwise it yields the item at its position, or stops.
IterNext(fr, d) ==
    IF Len(d) # fr.size THEN "changed_size"
    ELSE IF fr.it < Len(d) THEN "item"
    ELSE "stop"

CleanupReturned(fr, outcome) ==
    [op |-> "cleanup", outcome |-> outcome, atStart |-> fr.atStart,
     sessionsAtStart |-> fr.sessionsAtStart, attempted |-> fr.attempted,
     outcomes |-> fr.outcomes, registered |-> fr.registered]

\* End of cleanup(): the loop is over, both dicts are cleared.
CleanupFinish(fr) ==
    /\ sessions' = Clear(sessions)
    /\ exit_stacks' = Clear(exit_stacks)
    /\ cleanup' = IdleCleanup
    /\ ret' = CleanupReturned(fr, "returned")

\* The RuntimeError of the iterator is raised by the for statement, outside the
\* try block: it leaves cleanup() and the dicts are not cleared.
CleanupRaise(fr) ==
    /\ cleanup' = IdleCleanup
    /\ ret' = CleanupReturned(fr, "raised")
    /\ UNCHANGED <<sessions, exit_stacks>>

\* Advance the loop from frame fr: take the next item (the pair the dict holds
\* at the iterator's position now) and start closing its stack, or leave the
\* loop.
CleanupAdvance(fr) ==
    LET nxt == IterNext(fr, exit_stacks)
    IN  CASE nxt = "item" ->
               /\ cleanup' = [fr EXCEPT !.pc = "closing", !.it = fr.it + 1,
                                         !.cur = exit_stacks[fr.it + 1][2]]
               /\ ret' = NoRet
               /\ UNCHANGED <<sessions, exit_stacks>>
          [] nxt = "stop" -> CleanupFinish(fr)
          [] nxt = "changed_size" -> CleanupRaise(fr)

\* cleanup() is called: the loop starts over self.exit_stacks.items()
CleanupCall ==
    /\ probe.pc = "idle"
    /\ cleanup.pc = "idle"
    /\ CleanupAdvance([IdleCleanup EXCEPT !.size = Len(exit_stacks),
                                          !.atStart = exit_stacks,
                                          !.sessionsAtStart = sessions])
    /\ UNCHANGED <<transport, server_params, stacks, calls, probe, forceClosed, main>>

\* a loop without the try statement: the exception of a close leaves cleanup()
ExceptCatches_nothing(out) == FALSE

\* `except Exception as e: ... continue`: the exception of a close is caught
ExceptCatches(out) == TRUE

\* `await exit_stack.aclose()` of the current item resolves, normally or with an
\* exception that the except clause logs; the loop goes on.
CleanupClose ==
    /\ cleanup.pc = "closing"
    /\ LET k == cleanup.cur
       IN  \E out \in CloseOutcomes(stacks, k) :
             LET fr == [cleanup EXCEPT !.attempted = Append(@, k),
                                       !.outcomes = Append(@, out)]
             IN  /\ stacks' = Closed(stacks, k)
                 /\ IF out = "raised" /\ ~ExceptCatches(out)
                    THEN CleanupRaise(fr)
                    ELSE CleanupAdvance(fr)
    /\ UNCHANGED <<transport, server_params, calls, probe, forceClosed, main>>

\* ---------------------------------------------------------------------
\* snapshot() and the decay test of timeout_tester
\* ---------------------------------------------------------------------

\* A snapshot of a process that exists: rss in bytes, cpu in tenths of a
\* percent, thr and kids as counts.  (fds and handles are not read by the
\* probe and are left out.)
Alive(rss, cpu, thr, kids) == [rss |-> rss, cpu |-> cpu, thr |-> thr, kids |-> kids]

\* snapshot() of a process that psutil cannot read: {"dead": True}
Dead == [dead |-> TRUE]

\* `last = None`
None == [none |-> TRUE]

\* The baselines tried: the one of the specification's scenarios, one of a
\* process with a child, and the one of a process that has gone already.
BaselineValues == {Alive(50000000, 0, 4, 0), Alive(50000000, 10, 4, 1), Dead}

\* The drain snapshots tried: Scenario A's, the largest rss the baseline of
\* 50,000,000 allows and the first one it does not, Scenario B's rss, and one
\* per other condition that fails it alone.
SnapshotValues ==
    { Alive(48000000, 10, 5, 0),
      Alive(60000000, 10, 5, 0),
      Alive(60000001, 10, 5, 0),
      Alive(200000000, 10, 5, 0),
      Alive(48000000, 20, 5, 0),
      Alive(48000000, 10, 6, 0),
      Alive(48000000, 10, 5, 1),
      Dead }

\* The reads of lines 79-90, in order, and the key each one fills.
SnapshotReads ==
    <<"memory_info", "cpu_percent", "num_threads", "num_fds", "num_handles", "children">>

SnapshotKeys == <<"rss", "cpu", "thr", "fds", "handles", "kids">>

\* The values a read of a process that exists may give: numbers for the keys
\* the probe compares, "count" for the two it does not.
ReadValues(read) ==
    CASE read = "memory_info" -> {48000000, 200000000}
      [] read = "cpu_percent" -> {10, 20}
      [] read = "num_threads" -> {5, 6}
      [] read = "num_fds" -> {"count"}
      [] read = "num_handles" -> {"count"}
      [] read = "children" -> {0, 1}

\* The exceptions of psutil, all subclasses of psutil.Error.
PsutilErrors == {"NoSuchProcess", "AccessDenied"}

\* What a read resolves to: "value" or the exception raised.
\*  - psutil.Process has num_fds only on Unix and num_handles only on Windows;
\*  - a read of a process that is gone raises NoSuchProcess, except that inside
\*    oneshot() cpu_percent and num_threads may be answered from what
\*    memory_info has cached, and that children() walks the process table and,
\*    depending on the psutil version, raises or finds no child;
\*  - a read of a process that exists and that the tester may not inspect
\*    raises AccessDenied or passes, depending on the read and the platform.
ReadResults(read, alive, readable, platform) ==
    IF read = "num_fds" /\ platform = "windows" THEN {"AttributeError"}
    ELSE IF read = "num_handles" /\ platform = "unix" THEN {"AttributeError"}
    ELSE IF ~alive
         THEN IF read \in {"cpu_percent", "num_threads", "children"}
              THEN {"NoSuchProcess", "value"}
              ELSE {"NoSuchProcess"}
    ELSE IF ~readable THEN {"AccessDenied", "value"}
    ELSE {"value"}

\* The platforms: which of num_fds and num_handles exists.
Platforms == {"unix", "windows"}

\* `except Exception:` of lines 84 and 88, around num_fds and num_handles
InnerCatches(read, exc) == read \in {"num_fds", "num_handles"}

\* `except psutil.Error:` of line 92
OuterCatches(exc) == exc \in PsutilErrors

\* What snapshot(proc) hands the drain loop.  gone: the server process has
\* exited before the call.  The first read, memory_info, then raises and line
\* 92 turns the exception into {"dead": True}; of a process that exists at the
\* call any of the values tried may come back ({"dead": True} too: it exits
\* during the call, or may not be inspected).
DrainSnapshots(gone) ==
    IF gone /\ \A p \in Platforms :
                 \A out \in ReadResults(SnapshotReads[1], FALSE, TRUE, p) : OuterCatches(out)
    THEN {Dead}
    ELSE SnapshotValues

\* d[key] with a missing field read as more than any limit
Get_missing_is_large(d, key) == IF key \in DOMAIN d THEN d[key] ELSE 1000000000

\* d.get(key, 0)
Get(d, key) == IF key \in DOMAIN d THEN d[key] ELSE 0

\* 2.0 percent, in tenths of a percent
CpuLimit == 20

ok_cpu(last, base) == Get(last, "cpu") < CpuLimit

\* the thread test without its slack of one
ok_thr_no_slack(last, base) == Get(last, "thr") <= Get(base, "thr")

ok_thr(last, base) == Get(last, "thr") <= Get(base, "thr") + 1

ok_kids(last, base) == Get(last, "kids") <= Get(base, "kids")

\* the rss test with the factor 11 in place of 1.10
ok_rss_factor(last, base) == Get(last, "rss") <= 11 * Get(base, "rss") + 5000000

\* last <= base * 1.10 + 5_000_000, both sides times ten
ok_rss(last, base) == 10 * Get(last, "rss") <= 11 * Get(base, "rss") + 50000000

\* `if ok_cpu and ok_thr and ok_kids and ok_rss`
ok_all(last, base) ==
    ok_cpu(last, base) /\ ok_thr(last, base) /\ ok_kids(last, base) /\ ok_rss(last, base)

\* ---------------------------------------------------------------------
\* timeout_tester()
\* ---------------------------------------------------------------------

\* Durations in ticks: the cpu sample of snapshot() (interval=0.1) and
\* asyncio.sleep(0.2) in the drain loop.
SnapshotTicks == 1

SleepTicks == 2

Jitter == 0..MaxJitter

\* Names the function reads that neither MCPTesterClient.__init__ nor the
\* module advanced.py binds: the attributes transport_name and transport_params
\* of the client, and the globals tool and args.  A name resolves only if the
\* caller has bound it; the attributes, when bound, are taken to hold the
\* client's transport and server_params.
UnboundNames == {"transport_name", "transport_params", "tool"}

\* A child process of the tester exists while a stdio_client context is open.
ChildExists == \E k \in 1..Len(stacks) : \E i \in 1..Len(stacks[k]) : stacks[k][i] = "stdio_client"

\* Lines 10-24, up to create_task: the exception that ends the call, if any.
\* bound: the names the caller has bound; found: find_stdio_child matched a child.
PreludeError(bound, server_id, found) ==
    IF "transport_name" \notin bound THEN "AttributeError:transport_name"
    ELSE IF transport # "stdio" THEN "RuntimeError:transport"
    ELSE IF "transport_params" \notin bound THEN "AttributeError:transport_params"
    ELSE IF ~MapHas(server_params, server_id) THEN "KeyError:transport_params"
    ELSE IF ~MapHas(sessions, server_id) THEN "KeyError:sessions"
    ELSE IF ~Has(exit_stacks, server_id) THEN "KeyError:exit_stacks"
    ELSE IF ~found THEN "RuntimeError:process"
    ELSE IF "tool" \notin bound THEN "NameError:tool"
    ELSE "none"

\* the prelude with the call issued before the baseline is taken
PreludeEvents_call_first(err) ==
    IF err = "RuntimeError:process" THEN <<"find_stdio_child">>
    ELSE IF err = "NameError:tool" THEN <<"find_stdio_child">>
    ELSE IF err = "none" THEN <<"find_stdio_child", "call_tool", "snapshot">>
    ELSE << >>

\* What lines 20-24 have done to the world, in order, when the prelude ends
\* with err.
PreludeEvents(err) ==
    IF err = "RuntimeError:process" THEN <<"find_stdio_child">>
    ELSE IF err = "NameError:tool" THEN <<"find_stdio_child", "snapshot">>
    ELSE IF err = "none" THEN <<"find_stdio_child", "snapshot", "call_tool">>
    ELSE << >>

ProbeRaised(error, events) ==
    [op |-> "timeout_tester", outcome |-> "raised", error |-> error, events |-> events]

\* The dict the return statements of lines 47 and 50 build
Result(status, base, last) == [status |-> status, baseline |-> base, final |-> last]

\* A return of the probe: the dict returned and, for the record, the frame
\* that the return leaves (gone: the process had exited before the last
\* snapshot was taken).
ProbeReturned(fr, status) ==
    [op |-> "timeout_tester", outcome |-> "returned",
     value |-> Result(status, fr.base, fr.last),
     base |-> fr.base, grace |-> fr.grace, snaps |-> fr.snaps, now |-> fr.now,
     gone |-> fr.gone, events |-> fr.events]

\* timeout_tester(client, grace=.., server_id=..) from its call to the await
\* of line 25.  The probe is run by the coordinating flow (run_tests), with no
\* connect or cleanup call in flight.
ProbeCall(grace, server_id) ==
    /\ probe.pc = "idle"
    /\ calls = {}
    /\ cleanup.pc = "idle"
    /\ \E bound \in SUBSET UnboundNames, found \in {f \in BOOLEAN : f => ChildExists} :
         LET err == PreludeError(bound, server_id, found)
         IN  IF err # "none"
             THEN /\ probe' = IdleProbe
                  /\ ret' = ProbeRaised(err, PreludeEvents(err))
             ELSE /\ \E b \in BaselineValues :
                       probe' = [pc |-> "sleep", grace |-> grace, server_id |-> server_id,
                                 session |-> sessions[server_id],
                                 stack |-> Lookup(exit_stacks, server_id),
                                 base |-> b, task |-> "pending", last |-> None,
                                 gone |-> FALSE,
                                 snaps |-> << >>, now |-> 0,
                                 events |-> PreludeEvents(err)]
                  /\ ret' = NoRet
    /\ UNCHANGED <<transport, server_params, sessions, exit_stacks, stacks, calls, cleanup,
                   forceClosed, main>>

\* What `await task` will resolve to once task.cancel() has been called: the
\* cancellation ("cancelled"), a result or an error of the call (it had
\* finished during the sleep, or it answers the cancellation so), or nothing
\* ever ("ignored": the call swallows the cancellation and goes on).  A call on
\* a session whose ClientSession context has been exited fails.
TaskOutcomes(session) ==
    IF \E i \in 1..Len(stacks[session]) : stacks[session][i] = "ClientSession"
    THEN {"cancelled", "result", "error", "ignored"}
    ELSE {"error"}

\* Lines 27-29: the sleep is over, task.cancel(), `await task` begins.
ProbeCancel ==
    /\ probe.pc = "sleep"
    /\ \E t \in TaskOutcomes(probe.session) :
         probe' = [probe EXCEPT !.pc = "await_task", !.task = t,
                                !.events = Append(@, "cancel")]
    /\ ret' = NoRet
    /\ UNCHANGED <<transport, server_params, sessions, exit_stacks, stacks, calls, cleanup,
                   forceClosed, main>>

\* Which resolutions of `await task` the try statement lets the probe survive:
\* only asyncio.CancelledError is caught.
AwaitSurvives(t) == t \in {"cancelled", "result"}

\* Lines 29-34: `await task` resolves; `await stack.aclose()` begins unless the
\* exception of the call leaves the probe.
ProbeAwaitTask ==
    /\ probe.pc = "await_task"
    /\ probe.task # "ignored"
    /\ IF AwaitSurvives(probe.task)
       THEN /\ probe' = [probe EXCEPT !.pc = "aclose"]
            /\ ret' = NoRet
       ELSE /\ probe' = IdleProbe
            /\ ret' = ProbeRaised("ToolError", probe.events)
    /\ UNCHANGED <<transport, server_params, sessions, exit_stacks, stacks, calls, cleanup,
                   forceClosed, main>>

\* Lines 34-38: `await stack.aclose()` resolves; the deadline is set.  The
\* frame's clock `now` is time.monotonic() less its value at line 37, so that
\* the deadline is the grace period.
ProbeForceClose ==
    /\ probe.pc = "aclose"
    /\ \E out \in CloseOutcomes(stacks, probe.stack) :
         /\ stacks' = Closed(stacks, probe.stack)
         /\ forceClosed' = forceClosed \cup {probe.stack}
         /\ IF out = "ok"
            THEN /\ probe' = [probe EXCEPT !.pc = "drain", !.now = 0, !.last = None,
                                           !.events = Append(@, "aclose")]
                 /\ ret' = NoRet
            ELSE /\ probe' = IdleProbe
                 /\ ret' = ProbeRaised("CloseError", Append(probe.events, "aclose"))
    /\ UNCHANGED <<transport, server_params, sessions, exit_stacks, calls, cleanup, main>>

\* the loop test leaving one tick early
LoopContinues_early(now, deadline) == now + 1 < deadline

\* `while time.monotonic() < deadline`
LoopContinues(now, deadline) == now < deadline

\* Lines 39-48: one more turn of the loop: a snapshot, the decay test, and
\* either the return of line 47 or the sleep of line 48.
ProbeDrainSnapshot ==
    /\ probe.pc = "drain"
    /\ LoopContinues(probe.now, probe.grace)
    /\ \E gone \in BOOLEAN, j \in Jitter : \E s \in DrainSnapshots(gone) :
         LET fr == [probe EXCEPT !.last = s, !.snaps = Append(@, s), !.gone = gone,
                                 !.now = @ + SnapshotTicks + j,
                                 !.events = Append(@, "snapshot")]
         IN  IF ok_all(s, probe.base)
             THEN /\ probe' = IdleProbe
                  /\ ret' = ProbeReturned(fr, "clean")
             ELSE /\ probe' = [fr EXCEPT !.pc = "drain_sleep"]
                  /\ ret' = NoRet
    /\ UNCHANGED <<transport, server_params, sessions, exit_stacks, stacks, calls, cleanup,
                   forceClosed, main>>

\* Line 48: asyncio.sleep(0.2) is over.
ProbeDrainSleep ==
    /\ probe.pc = "drain_sleep"
    /\ \E j \in Jitter :
         probe' = [probe EXCEPT !.pc = "drain", !.now = @ + SleepTicks + j]
    /\ ret' = NoRet
    /\ UNCHANGED <<transport, server_params, sessions, exit_stacks, stacks, calls, cleanup,
                   forceClosed, main>>

\* Line 50: the loop is over without a decayed snapshot.
ProbeDrainTimeout ==
    /\ probe.pc = "drain"
    /\ ~LoopContinues(probe.now, probe.grace)
    /\ probe' = IdleProbe
    /\ ret' = ProbeReturned(probe, "suspect_leak")
    /\ UNCHANGED <<transport, server_params, sessions, exit_stacks, stacks, calls, cleanup,
                   forceClosed, main>>

\* ---------------------------------------------------------------------
\* snapshot(proc), read by read
\* ---------------------------------------------------------------------

\* snapshot(proc) has handed back value d; for the record, whether the process
\* existed at that moment, and whether a read of this call had raised
\* NoSuchProcess.
SnapshotReturned(fr, d, detected) ==
    [op |-> "snapshot", outcome |-> "returned", value |-> d,
     alive |-> fr.alive, readable |-> fr.readable, detected |-> detected]

\* snapshot(proc) is called on a process that exists or not, that the tester
\* may inspect or not.
SnapshotCall(alive, readable, platform) ==
    /\ probe.pc = "idle"
    /\ probe' = [pc |-> "snapshot", at |-> 1, alive |-> alive, readable |-> readable,
                 platform |-> platform, got |-> << >>, detected |-> FALSE]
    /\ ret' = NoRet
    /\ UNCHANGED <<transport, server_params, sessions, exit_stacks, stacks, calls, cleanup,
                   forceClosed, main>>

\* The process exits while snapshot() is between two reads (cpu_percent alone
\* blocks for 100 ms).
ProcessExit ==
    /\ probe.pc = "snapshot"
    /\ probe.alive
    /\ probe' = [probe EXCEPT !.alive = FALSE]
    /\ ret' = NoRet
    /\ UNCHANGED <<transport, server_params, sessions, exit_stacks, stacks, calls, cleanup,
                   forceClosed, main>>

\* The frame after the read at fr.at has filled its key with v.
SnapshotFilled(fr, v, detected) ==
    [fr EXCEPT !.at = @ + 1, !.got = MapStore(@, SnapshotKeys[fr.at], v),
               !.detected = detected]

\* The next read of snapshot() and what the code does with its outcome: the
\* value is kept; an exception of num_fds or num_handles makes the key None; a
\* psutil.Error of another read ends the call with {"dead": True}.  After the
\* last read the dict of line 91 is returned.
SnapshotRead ==
    /\ probe.pc = "snapshot"
    /\ LET read == SnapshotReads[probe.at]
       IN  \E out \in ReadResults(read, probe.alive, probe.readable, probe.platform) :
             LET detected == probe.detected \/ out = "NoSuchProcess"
                 vals == IF out # "value" THEN {"None"}
                         ELSE IF read = "children" /\ ~probe.alive THEN {0}
                         ELSE ReadValues(read)
             IN  IF out = "value" \/ InnerCatches(read, out)
                 THEN \E v \in vals :
                        LET fr == SnapshotFilled(probe, v, detected)
                        IN  IF fr.at > Len(SnapshotReads)
                            THEN /\ probe' = IdleProbe
                                 /\ ret' = SnapshotReturned(probe, fr.got, detected)
                            ELSE /\ probe' = fr
                                 /\ ret' = NoRet
                 ELSE IF OuterCatches(out)
                 THEN /\ probe' = IdleProbe
                      /\ ret' = SnapshotReturned(probe, Dead, detected)
                 ELSE /\ probe' = IdleProbe
                      /\ ret' = [op |-> "snapshot", outcome |-> "raised", error |-> out,
                                 alive |-> probe.alive, readable |-> probe.readable,
                                 detected |-> detected]
    /\ UNCHANGED <<transport, server_params, sessions, exit_stacks, stacks, calls, cleanup,
                   forceClosed, main>>

\* ---------------------------------------------------------------------
\* find_stdio_child(cmd_stem)
\* ---------------------------------------------------------------------

\* time.sleep(0.1) of line 59, in ticks
FindSleepTicks == 1

\* When, in ticks after the spawn, the child shows in the process table under
\* the command line of the server: at once, or up to two ticks after the
\* latest moment at which line 60 can look.
ReadyTicks == 0..(FindSleepTicks + MaxJitter + 2)

\* What the list of line 60 and the loop of lines 62-68 find at time now: the
\* child if it is in the table by then, its command line can be read (a
\* psutil.Error is passed over) and holds cmd_stem.
Finds(now, readyAt, readable) == readyAt <= now /\ readable

\* find_stdio_child is called right after the spawn (time 0) and sleeps.
FindCall(readyAt, readable) ==
    /\ probe.pc = "idle"
    /\ probe' = [pc |-> "find_sleep", readyAt |-> readyAt, readable |-> readable,
                 now |-> 0, checks |-> 0]
    /\ ret' = NoRet
    /\ UNCHANGED <<transport, server_params, sessions, exit_stacks, stacks, calls, cleanup,
                   forceClosed, main>>

\* Lines 60-69: the sleep is over; the children are listed once and matched;
\* the child is returned or RuntimeError is raised.
FindCheck ==
    /\ probe.pc = "find_sleep"
    /\ \E j \in Jitter :
         LET now == probe.now + FindSleepTicks + j
             found == Finds(now, probe.readyAt, probe.readable)
         IN  ret' = [op |-> "find_stdio_child",
                     outcome |-> IF found THEN "returned" ELSE "raised",
                     checks |-> probe.checks + 1, now |-> now,
                     readyAt |-> probe.readyAt, readable |-> probe.readable]
    /\ probe' = IdleProbe
    /\ UNCHANGED <<transport, server_params, sessions, exit_stacks, stacks, calls, cleanup,
                   forceClosed, main>>

\* ---------------------------------------------------------------------
\* run.py: main() and run_tests()
\* ---------------------------------------------------------------------

\* --suite
Suites == {"basic", "advanced"}

\* TEST_REGISTRY[suite]: the test functions of a suite, in the registry's order
TestRegistry(suite) ==
    IF suite = "basic"
    THEN <<"tool_description_pinjection", "tool_response_pinjection">>
    ELSE <<"timeout_tester", "cancel_tester">>

\* --test: not given ("None"), a name of one of the registries, or another name
TestArgs ==
    {"None", "tool_description_pinjection", "tool_response_pinjection",
     "timeout_tester", "cancel_tester", "no_such_test"}

\* `test in test_registry`
InRegistry(test, suite) ==
    \E i \in 1..Len(TestRegistry(suite)) : TestRegistry(suite)[i] = test

\* How the await of a test function called by run_tests ends.  The scan of the
\* tool descriptions returns or raises (the judge model, the session);
\* tool_response_pinjection and cancel_tester raise NotImplementedError;
\* timeout_tester is called on the client as main() built it, with none of
\* the names it needs bound, and ends in its prelude.
TestOutcomes(test, id) ==
    CASE test = "tool_description_pinjection" -> {"returned", "raised"}
      [] test = "tool_response_pinjection" -> {"raised"}
      [] test = "cancel_tester" -> {"raised"}
      [] test = "timeout_tester" ->
           IF PreludeError({}, id, FALSE) # "none" THEN {"raised"}
           ELSE {"returned", "raised"}

\* The command lines tried (argparse has accepted them).
MainArgs == [transport : Transports, suite : Suites, test : TestArgs, server_id : ServerIds]

\* main() is about to run with the given arguments.  For the record: how
\* connect ended, how the tests ended, how the test run was left, and what the
\* finally block has closed.
StartFrame(args) ==
    [pc |-> "start", args |-> args, connect |-> "not_attempted", tests |-> "not_run",
     via |-> "none", queue |-> << >>, it |-> 0, attempted |-> << >>, outcomes |-> << >>]

\* The process has ended with the exit code `code`.
Exited(fr, code) ==
    [pc |-> "exited", code |-> code, args |-> fr.args, connect |-> fr.connect,
     tests |-> fr.tests, via |-> fr.via, attempted |-> fr.attempted,
     outcomes |-> fr.outcomes]

\* How the process gets to line 128: the import of line 35 names
\* ADVANCED_TEST_REGISTRY, which advanced.py does not define (it defines
\* ADVANCED_TOOL_REGISTRY): the import resolves only where the module advanced
\* in use binds that name, and ends the process with an ImportError otherwise;
\* a command line without arguments prints the help and exits (lines 114-116).
Boots == {"ImportError", "usage", "parsed"}

\* Lines 129-153: the branch taken for --transport.
Branch(t) ==
    IF t = "stdio" THEN "stdio"
    ELSE IF t = "http" THEN "https"
    ELSE "unsupported"

\* Lines 34-131 and 144-156: up to the creation of the client, or to the exit.
MainStart ==
    /\ main.pc = "start"
    /\ \E boot \in Boots :
         IF boot # "parsed" THEN main' = Exited(main, 1)
         ELSE IF Branch(main.args.transport) = "stdio"
              THEN main' = [main EXCEPT !.pc = "setup"]
              ELSE main' = Exited(main, 1)
    /\ ret' = NoRet
    /\ UNCHANGED <<transport, server_params, sessions, exit_stacks, stacks, calls, cleanup,
                   probe, forceClosed>>

\* Lines 134-142: main() registers the server.  While main() is between lines
\* 131 and 151 its frame stays at "setup": where it is shows in what it has
\* done to the client.
MainRegister ==
    /\ main.pc = "setup"
    /\ ~MapHas(server_params, main.args.server_id)
    /\ \E cfg \in RunConfigs : add_server(main.args.server_id, cfg)

\* Line 143: main() calls connect_server_stdio and awaits it.
MainConnect ==
    /\ main.pc = "setup"
    /\ MapHas(server_params, main.args.server_id)
    /\ stacks = << >>
    /\ connect_server_stdio(main.args.server_id)

\* the test of line 158 left out
Connected_unchecked(id) == TRUE

\* Line 158: `server_id in tester_client.sessions`
Connected(id) == MapHas(sessions, id)

\* a cleanup in the normal path only, not in a finally clause
RunsFinally_normal_only(via) == via = "return"

\* `finally:` (line 167) is entered however the try block is left
RunsFinally(via) == TRUE

\* The exit code of the process when nothing but the test run decides it:
\* main() returns (0) or SystemExit(1) is on its way out.
ExitCode(via) == IF via = "return" THEN 0 ELSE 1

\* The try block of lines 162-166 is left: by the return of run_tests
\* ("return"), by the sys.exit(1) of line 101 ("sys.exit") or by that of line
\* 108 ("exception").  The finally block starts closing the handles, up to its
\* first await.
Leave(fr, via) ==
    LET f == [fr EXCEPT !.via = via]
    IN  IF RunsFinally(via) /\ Len(exit_stacks) > 0
        THEN [f EXCEPT !.pc = "closing", !.it = 1]
        ELSE Exited(f, ExitCode(via))

\* run_tests goes on to the next test function of the queue, up to its await,
\* or returns.
AwaitTests(fr, queue) ==
    IF queue = << >> THEN Leave([fr EXCEPT !.tests = "ok"], "return")
    ELSE [fr EXCEPT !.pc = "testing", !.queue = queue]

\* Lines 143-163 and 90-105: the await of connect resolves.  An exception ends
\* the process (lines 154-156), so does a session missing from the dict (lines
\* 158-160); otherwise run_tests is entered and picks its tests.
MainConnected ==
    /\ main.pc = "setup"
    /\ ret.op = "connect"
    /\ LET a == main.args
       IN  IF ret.outcome = "raised"
           THEN main' = Exited([main EXCEPT !.connect = "raised"], 1)
           ELSE IF ~Connected(a.server_id)
           THEN main' = Exited([main EXCEPT !.connect = ret.outcome], 1)
           ELSE LET f == [main EXCEPT !.connect = ret.outcome]
                IN  IF a.test = "None" THEN main' = AwaitTests(f, TestRegistry(a.suite))
                    ELSE IF InRegistry(a.test, a.suite) THEN main' = AwaitTests(f, <<a.test>>)
                    ELSE main' = Leave([f EXCEPT !.tests = "unknown_test"], "sys.exit")
    /\ ret' = NoRet
    /\ UNCHANGED <<transport, server_params, sessions, exit_stacks, stacks, calls, cleanup,
                   probe, forceClosed>>

\* Lines 98/105-108: the await of a test function resolves.
MainTestDone ==
    /\ main.pc = "testing"
    /\ \E out \in TestOutcomes(Head(main.queue), main.args.server_id) :
         IF out = "returned"
         THEN main' = AwaitTests(main, Tail(main.queue))
         ELSE main' = Leave([main EXCEPT !.tests = "raised"], "exception")
    /\ ret' = NoRet
    /\ UNCHANGED <<transport, server_params, sessions, exit_stacks, stacks, calls, cleanup,
                   probe, forceClosed>>

\* Lines 171-175: `await exit_stack.aclose()` resolves.  The loop goes on to
\* the next handle; an exception is caught outside the loop, which ends it.
MainClosed ==
    /\ main.pc = "closing"
    /\ LET k == exit_stacks[main.it][2]
       IN  \E out \in CloseOutcomes(stacks, k) :
             LET f == [main EXCEPT !.attempted = Append(@, k), !.outcomes = Append(@, out)]
             IN  /\ stacks' = Closed(stacks, k)
                 /\ IF out = "raised" \/ main.it = Len(exit_stacks)
                    THEN main' = Exited(f, ExitCode(main.via))
                    ELSE main' = [f EXCEPT !.it = @ + 1]
    /\ ret' = NoRet
    /\ UNCHANGED <<transport, server_params, sessions, exit_stacks, calls, cleanup, probe,
                   forceClosed>>

\* The grace periods tried, in ticks: none and the longest.
GraceValues == {0, MaxGrace}

\* The probe is run against the default server id; the manager treats all ids
\* alike.
ProbeIds == {"1"}

vars == <<transport, server_params, sessions, exit_stacks, stacks, calls, cleanup,
          probe, forceClosed, main, ret>>

Init == ClientInit /\ main = IdleMain

Next ==
    \/ \E id \in ServerIds, cfg \in RunConfigs : add_server(id, cfg)
    \/ \E id \in ServerIds : connect_server_stdio(id)
    \/ \E id \in ServerIds : connect_server_streamable_https(id)
    \/ \E c \in calls : ConnectTransport(c)
    \/ \E c \in calls : ConnectSession(c)
    \/ \E c \in calls : ConnectInitialize(c)
    \/ CleanupCall
    \/ CleanupClose
    \/ \E g \in GraceValues, id \in ProbeIds : ProbeCall(g, id)
    \/ ProbeCancel
    \/ ProbeAwaitTask
    \/ ProbeForceClose
    \/ ProbeDrainSnapshot
    \/ ProbeDrainSleep
    \/ ProbeDrainTimeout

Spec == Init /\ [][Next]_vars

\* The steps that resume a probe in flight.  The event loop resumes a
\* coroutine whose await has resolved: a probe that can take a step takes it.
ProbeStep ==
    \/ ProbeCancel
    \/ ProbeAwaitTask
    \/ ProbeForceClose
    \/ ProbeDrainSnapshot
    \/ ProbeDrainSleep
    \/ ProbeDrainTimeout

FairSpec == Spec /\ WF_vars(ProbeStep)

\* The registry alone: add_server called with any configuration, any number
\* of times, on a client that is doing nothing else.
RegistryNext == \E id \in ServerIds, cfg \in Configs : add_server(id, cfg)

RegistrySpec == Init /\ [][RegistryNext]_vars

\* The two helpers of the probe alone, each called on a process in any
\* condition, on a client that is doing nothing else.
HelperNext ==
    \/ \E alive \in BOOLEAN, readable \in BOOLEAN, platform \in Platforms :
         SnapshotCall(alive, readable, platform)
    \/ ProcessExit
    \/ SnapshotRead
    \/ \E readyAt \in ReadyTicks, readable \in BOOLEAN : FindCall(readyAt, readable)
    \/ FindCheck

HelperSpec == Init /\ [][HelperNext]_vars

\* The command line: `python run.py --transport .. --suite .. [--test ..]`.
\* The only client main() can build is the stdio one.
CliInit ==
    /\ ClientInit
    /\ transport = "stdio"
    /\ main \in {StartFrame(a) : a \in MainArgs}

CliNext ==
    \/ MainStart
    \/ MainRegister
    \/ MainConnect
    \/ \E c \in calls : ConnectTransport(c)
    \/ \E c \in calls : ConnectSession(c)
    \/ \E c \in calls : ConnectInitialize(c)
    \/ MainConnected
    \/ MainTestDone
    \/ MainClosed

CliSpec == CliInit /\ [][CliNext]_vars

\* =====================================================================
\* Properties
\* =====================================================================

\* The probe has just returned a result / has just ended with an exception.
ProbeDone == ret.op = "timeout_tester" /\ ret.outcome = "returned"

ProbeFailed == ret.op = "timeout_tester" /\ ret.outcome = "raised"

\* The value of a snapshot's field, 0 for a field the snapshot of a process
\* that is gone does not carry.
Field(s, f) == IF "dead" \in DOMAIN s THEN 0 ELSE s[f]

\* The four decay conditions, as the specification states them.
DecayConditions(s, b) ==
    /\ Field(s, "cpu") < 20
    /\ Field(s, "thr") <= Field(b, "thr") + 1
    /\ Field(s, "kids") <= Field(b, "kids")
    /\ 10 * Field(s, "rss") <= 11 * Field(b, "rss") + 50000000

\* The positions of the drain snapshots that satisfy the four conditions.
Decayed(snaps, b) == {i \in 1..Len(snaps) : DecayConditions(snaps[i], b)}

InDrain == probe.pc \in {"drain", "drain_sleep"}

\* C1: if a drain snapshot satisfies the four decay conditions, the probe
\* returns Clean with that snapshot as final, and it is both the first such
\* snapshot and the last snapshot taken: the loop never goes on (to a sleep or
\* to another snapshot) holding a snapshot that satisfies them.
C1_FirstDecayedIsFinal ==
    /\ ProbeDone /\ Decayed(ret.snaps, ret.base) # {} =>
         /\ ret.value.status = "clean"
         /\ Decayed(ret.snaps, ret.base) = {Len(ret.snaps)}
         /\ ret.value.final = ret.snaps[Len(ret.snaps)]
    /\ InDrain => Decayed(probe.snaps, probe.base) = {}

\* C1 witness: a Clean verdict on the second drain snapshot.
C1_Witness ==
    /\ ProbeDone
    /\ Len(ret.snaps) = 2
    /\ Decayed(ret.snaps, ret.base) = {2}
    /\ ret.value.status = "clean"

\* C2: if no drain snapshot satisfies the decay conditions, the probe returns
\* (it raises nothing once draining has begun) SuspectLeak with the baseline it
\* captured and the last snapshot taken as final, and not before the grace
\* period has elapsed since draining began.
C2_SuspectLeakAfterGrace ==
    /\ ProbeDone /\ Decayed(ret.snaps, ret.base) = {} =>
         /\ ret.value.status = "suspect_leak"
         /\ ret.value.baseline = ret.base
         /\ Len(ret.snaps) > 0 => ret.value.final = ret.snaps[Len(ret.snaps)]
         /\ ret.now >= ret.grace
    /\ ProbeFailed => Len(ret.events) <= 5

\* C2 witness: SuspectLeak after two snapshots and a grace period that is not 0.
C2_Witness ==
    /\ ProbeDone
    /\ ret.value.status = "suspect_leak"
    /\ Len(ret.snaps) = 2
    /\ ret.grace > 0

ScenarioA_base == Alive(50000000, 0, 4, 0)

ScenarioA_drain == Alive(48000000, 10, 5, 0)

\* C3: a Clean verdict only on a final snapshot that satisfies the four
\* conditions against the baseline; Scenario A (its snapshot taken first) is
\* Clean, and Scenario B (every drain snapshot with rss >= 200,000,000 on a
\* baseline rss of 50,000,000) is SuspectLeak.
C3_CleanOnlyIfDecayed ==
    ProbeDone =>
      /\ ret.value.status = "clean" =>
           /\ Field(ret.value.final, "cpu") < 20
           /\ Field(ret.value.final, "thr") <= Field(ret.value.baseline, "thr") + 1
           /\ Field(ret.value.final, "kids") <= Field(ret.value.baseline, "kids")
           /\ 10 * Field(ret.value.final, "rss")
                <= 11 * Field(ret.value.baseline, "rss") + 50000000
      /\ (ret.base = ScenarioA_base /\ ret.snaps # << >> /\ ret.snaps[1] = ScenarioA_drain)
           => ret.value.status = "clean"
      /\ (/\ Field(ret.base, "rss") = 50000000
          /\ \A i \in 1..Len(ret.snaps) : Field(ret.snaps[i], "rss") >= 200000000)
           => ret.value.status = "suspect_leak"

\* C3 witness: Scenario A ends Clean.
C3_Witness ==
    /\ ProbeDone
    /\ ret.value.status = "clean"
    /\ ret.value.baseline = ScenarioA_base
    /\ ret.value.final = ScenarioA_drain

\* The order of the probe's effects: locate the process, baseline snapshot,
\* issue the call, request cancellation, force-close, then drain snapshots.
ProbeOrder(i) ==
    IF i <= 5 THEN <<"find_stdio_child", "snapshot", "call_tool", "cancel", "aclose">>[i]
    ELSE "snapshot"

InOrder(events) == \A i \in 1..Len(events) : events[i] = ProbeOrder(i)

\* C4: in every run of the probe, finished or not, what it has done so far is
\* a prefix of: baseline snapshot, call, cancellation, force-close, drain
\* snapshots.
C4_ProbeOrder ==
    /\ probe.pc # "idle" => InOrder(probe.events)
    /\ ret.op = "timeout_tester" => InOrder(ret.events)

\* C4 witness: a run that went through all five steps and took a drain snapshot.
C4_Witness == ProbeDone /\ Len(ret.events) >= 6

\* C5: once cancellation has been requested, whatever the awaited call
\* resolves to, the probe still force-closes the session: a run that has
\* ended after requesting cancellation has called aclose().
C5_ForceCloseAfterAnyResolution ==
    (ret.op = "timeout_tester" /\ Len(ret.events) >= 4) =>
        /\ Len(ret.events) >= 5
        /\ ret.events[5] = "aclose"

\* C6: a probe whose monitored call ignores the cancellation request still
\* reaches a verdict.
C6_DecidedDespiteIgnoredCancel ==
    (probe.pc = "await_task" /\ probe.task = "ignored") ~> ProbeDone

\* C7: on a client whose transport is not stdio the probe ends with the
\* unsupported-transport error before it has located a process, taken a
\* snapshot, issued a call or closed a session; on a client whose transport is
\* stdio the precondition of line 10 does not end the probe.
C7_TransportPrecondition ==
    ret.op = "timeout_tester" =>
        /\ transport # "stdio" =>
             /\ ret.outcome = "raised"
             /\ ret.error = "RuntimeError:transport"
             /\ ret.events = << >>
        /\ transport = "stdio" =>
             ~(/\ ret.outcome = "raised"
               /\ ret.error \in {"RuntimeError:transport", "AttributeError:transport_name"})

\* The stacks registered in an exit_stacks dict, in its order.
Handles(d) == [i \in 1..Len(d) |-> d[i][2]]

\* C8: a cleanup() call during which no connect call registers a handle
\* returns normally, has called aclose() once on each handle registered at the
\* call, in the dict's order, also after a close that raised, and leaves both
\* dicts empty.
C8_CleanupClosesAll ==
    (ret.op = "cleanup" /\ ~ret.registered) =>
        /\ ret.outcome = "returned"
        /\ ret.attempted = Handles(ret.atStart)
        /\ \A i, j \in 1..Len(ret.attempted) : i # j => ret.attempted[i] # ret.attempted[j]
        /\ sessions = << >>
        /\ exit_stacks = << >>

\* C8 witness: of two handles the close of the first raised, and the second was
\* closed all the same.
C8_Witness ==
    /\ ret.op = "cleanup"
    /\ ~ret.registered
    /\ ret.outcome = "returned"
    /\ ret.outcomes = <<"raised", "ok">>

\* C9: a connect call that ends on a handshake timeout or a spawn/open failure
\* has released what it acquired (its stack holds no open context), has left no
\* session stored under its id, and has reported the failure.
C9_FailedConnectReleases ==
    (ret.op = "connect" /\ ret.cause \in {"timeout", "spawn"}) =>
        /\ stacks[ret.stk] = << >>
        /\ ~(MapHas(sessions, ret.sid) /\ sessions[ret.sid] = ret.stk)
        /\ ret.outcome \in {"None", "raised"}

\* C10: a cleanup() that closes only sessions closed already (every handle
\* registered at its call was force-closed by the probe; or, after an earlier
\* cleanup(), nothing is registered) raises nothing and leaves both dicts as
\* they were when it was called.
C10_CloseIdempotent ==
    (/\ ret.op = "cleanup"
     /\ ~ret.registered
     /\ \A i \in 1..Len(ret.atStart) : ret.atStart[i][2] \in forceClosed
     /\ ret.atStart = << >> => ret.sessionsAtStart = << >>) =>
        /\ ret.outcome = "returned"
        /\ \A i \in 1..Len(ret.outcomes) : ret.outcomes[i] = "ok"
        /\ exit_stacks = ret.atStart
        /\ sessions = ret.sessionsAtStart

\* C11: add_server on an id that is registered already fails, and leaves
\* server_params as it was: the configuration registered is not replaced.
C11_DuplicateServerRejected ==
    (ret.op = "add_server" /\ MapHas(ret.before, ret.sid)) =>
        /\ ret.outcome = "raised"
        /\ server_params = ret.before

\* The connect calls in flight for a server id.
InFlight(id) == {c \in calls : c.sid = id}

\* C12: a connect call that starts while another call for the same id is
\* suspended at an await is rejected: no two calls for one id are ever in
\* flight together, and while a call is in flight the handle stored under its
\* id, if any, is the one that this call registered.
C12_ConcurrentConnectRejected ==
    \A id \in ServerIds :
        /\ Cardinality(InFlight(id)) <= 1
        /\ \A c \in InFlight(id) :
             Has(exit_stacks, id) => Lookup(exit_stacks, id) = c.stk

\* A session is open while its ClientSession context is entered and not
\* exited; the stack that owns it also holds its transport.
OpenSession(k) == \E i \in 1..Len(stacks[k]) : stacks[k][i] = "ClientSession"

\* C13: a connect call for an id whose session is open (its handshake done, no
\* call in flight) does not leave that session's transport open and out of
\* the reach of exit_stacks: whenever the handle stored under the id is
\* replaced, the stack replaced holds nothing open any more.
C13_ReconnectKeepsOneSession ==
    [][\A id \in ServerIds :
         (/\ calls = {}
          /\ cleanup.pc = "idle"
          /\ MapHas(sessions, id)
          /\ Has(exit_stacks, id)
          /\ Lookup(exit_stacks, id) = sessions[id]
          /\ OpenSession(sessions[id])
          /\ Has(exit_stacks', id)
          /\ Lookup(exit_stacks', id) # Lookup(exit_stacks, id))
         => stacks'[Lookup(exit_stacks, id)] = << >>]_vars

\* C14: every id in sessions is in exit_stacks, and the stack stored under it
\* is the one the session was entered in.  Stated for the states in which no
\* connect and no cleanup call is in flight, where no call is halfway through
\* its writes to the two dicts.
C14_SessionHasItsHandle ==
    (calls = {} /\ cleanup.pc = "idle") =>
        \A id \in DOMAIN sessions :
            /\ Has(exit_stacks, id)
            /\ Lookup(exit_stacks, id) = sessions[id]

\* C15: snapshot() never raises, and once one of its reads has found the
\* process gone (has raised NoSuchProcess) it returns {"dead": True}.
C15_DeadWhenExitDetected ==
    ret.op = "snapshot" =>
        /\ ret.outcome = "returned"
        /\ ret.detected => ret.value = Dead

\* C16: the process exits with code 0 exactly when connect returned a session
\* (spawn and handshake done) and every selected test returned; it exits with
\* code 1 when connect raised or timed out, when the test asked for is not in
\* the suite, and when a test raised.
C16_ExitCode ==
    main.pc = "exited" =>
        /\ main.code = 0 <=> (main.connect = "session" /\ main.tests = "ok")
        /\ (main.connect \in {"raised", "None"} \/ main.tests \in {"unknown_test", "raised"})
             => main.code = 1

\* C16 witness: a run that ends with code 0.
C16_Witness == main.pc = "exited" /\ main.code = 0 /\ main.tests = "ok"

\* C17: find_stdio_child gives up only after it has looked at the process
\* table again (at least two checks), and a child it returns was in the table
\* at the check that found it.
C17_LocatorRetries ==
    ret.op = "find_stdio_child" =>
        /\ ret.outcome = "raised" => ret.checks >= 2
        /\ ret.outcome = "returned" => ret.readyAt <= ret.now

C19_DeadOnlyIfGone ==
    (ret.op = "snapshot" /\ ret.outcome = "returned" /\ ret.value = Dead) => ~ret.alive

\* C20: every result the probe returns carries a final snapshot that the drain
\* loop took, whatever the grace period, 0 included.
C20_FinalSnapshotTaken ==
    ProbeDone =>
        /\ Len(ret.snaps) >= 1
        /\ ret.value.final # None
        /\ ret.value.final = ret.snaps[Len(ret.snaps)]

\* C21: a drain snapshot of a server process that has exited is {"dead": True};
\* it satisfies the four decay conditions whatever the baseline (its missing
\* fields read as 0), so the probe returns Clean with final = {"dead": True}
\* at that very snapshot: {"dead": True} is never followed by a sleep or by
\* another snapshot.
C21_DeadSnapshotIsClean ==
    /\ InDrain => \A i \in 1..Len(probe.snaps) : probe.snaps[i] # Dead
    /\ ProbeDone =>
          /\ ret.gone => (Len(ret.snaps) >= 1 /\ ret.snaps[Len(ret.snaps)] = Dead)
          /\ \A i \in 1..Len(ret.snaps) :
                ret.snaps[i] = Dead =>
                    /\ i = Len(ret.snaps)
                    /\ ok_cpu(Dead, ret.base) /\ ok_thr(Dead, ret.base)
                    /\ ok_kids(Dead, ret.base) /\ ok_rss(Dead, ret.base)
                    /\ ret.value = Result("clean", ret.base, Dead)

\* The process exits during the drain, after a snapshot that had not decayed,
\* against the baseline of a process with a child.
C21_Witness ==
    /\ ProbeDone
    /\ ret.gone
    /\ ret.base = Alive(50000000, 10, 4, 1)
    /\ Len(ret.snaps) = 2
    /\ ret.snaps[1] = Alive(200000000, 10, 5, 0)
    /\ ret.value = Result("clean", ret.base, Dead)

\* The handles of a sequence of handles, as a set.
Attempted(seq) == {seq[i] : i \in 1..Len(seq)}

\* C22: a cleanup() call during which a connect call registers a handle (at one
\* of cleanup's awaits) still ends normally, has attempted the close of every
\* handle registered when it started, and takes no handle out of exit_stacks
\* whose close it has not attempted.
C22_InterleavedCleanupClosesAll ==
    [][ (ret'.op = "cleanup" /\ ret'.registered) =>
            /\ ret'.outcome = "returned"
            /\ \A i \in 1..Len(ret'.atStart) :
                  ret'.atStart[i][2] \in Attempted(ret'.attempted)
            /\ \A i \in 1..Len(exit_stacks) :
                  (\A j \in 1..Len(exit_stacks') : exit_stacks'[j] # exit_stacks[i])
                      => exit_stacks[i][2] \in Attempted(ret'.attempted) ]_vars

\* C23: whenever no connect call is in progress (and no cleanup is half way
\* through its closes), every session in the session map has its transport
\* and its ClientSession open and has completed its handshake: a session
\* closed by the leak probe is not in the map, and a connect call that ends
\* with a handshake error (not a timeout) does not leave its session there.
C23_SessionsAreLive ==
    /\ (calls = {} /\ cleanup.pc = "idle") =>
          \A id \in DOMAIN sessions :
              /\ OpenSession(sessions[id])
              /\ sessions[id] \notin forceClosed
    /\ (calls = {} /\ ret.op = "connect" /\ ret.outcome = "raised" /\ ret.cause = "handshake") =>
          ~(MapHas(sessions, ret.sid) /\ sessions[ret.sid] = ret.stk)
====
